---- MODULE Spec2Model ----
(***************************************************************************)
(* Shape-level model of mindcv/models/inception_v4.py.                     *)
(*                                                                         *)
(* A tensor is represented by its shape <<N, C, H, W>> (or <<N, C>> after  *)
(* global pooling).  A "flow" is a shape together with the checks the      *)
(* tensor runtime performs while the shape is propagated:                  *)
(*   chan  - every convolution received as many channels as it declares    *)
(*   fits  - every kernel window fitted into its (padded) input            *)
(*   pos   - every layer produced a height and a width of at least 1       *)
(*   agree - every concatenation received branches of equal N, H and W     *)
(* Layers and blocks are data (records), exactly as __init__ declares      *)
(* them; the construct methods are operators over that data.               *)
(***************************************************************************)
EXTENDS Integers, Sequences, FiniteSets, TLC

(***************************************************************************)
(* Bounds of the model.                                                    *)
(***************************************************************************)
MaxInChannels == 3      \* in_channels and input channel counts range over 1..MaxInChannels
MaxClasses == 3         \* num_classes ranges over 1..MaxClasses and the default
MaxBatch == 2           \* batch sizes 1..MaxBatch
MaxSide == 76           \* SpecSize: input heights and widths 1..MaxSide and 299
MaxBlockSide == 36      \* SpecBlock: heights and widths 1..MaxBlockSide
MaxReps == 3            \* SpecBlock: at most MaxReps block applications in a row

(***************************************************************************)
(* Program constants.                                                      *)
(***************************************************************************)
DefaultInChannels == 3
DefaultNumClasses == 1000
NumInceptionA == 4
NumInceptionB == 7
NumInceptionC == 3
NumFeatures == 1536

(***************************************************************************)
(* Layers.  One record shape for all layer kinds; pooling layers have no   *)
(* channel declaration (cin = cout = 0).                                   *)
(***************************************************************************)
BasicConv2d(in_channels, out_channels, kh, kw, stride, pad_mode, padding) ==
    [type |-> "BasicConv2d", cin |-> in_channels, cout |-> out_channels,
     kh |-> kh, kw |-> kw, stride |-> stride, pad_mode |-> pad_mode,
     padding |-> padding]

\* BasicConv2d with the defaults stride=1, padding=0, pad_mode='same'
ConvSame(in_channels, out_channels, kh, kw) ==
    BasicConv2d(in_channels, out_channels, kh, kw, 1, "same", 0)

MaxPool2d_same(k, stride) ==
    [type |-> "MaxPool2d", cin |-> 0, cout |-> 0, kh |-> k, kw |-> k,
     stride |-> stride, pad_mode |-> "same", padding |-> 0]

\* nn.MaxPool2d(k, stride=s): pad_mode defaults to 'valid'
MaxPool2d(k, stride) ==
    [type |-> "MaxPool2d", cin |-> 0, cout |-> 0, kh |-> k, kw |-> k,
     stride |-> stride, pad_mode |-> "valid", padding |-> 0]

AvgPool2d(k, stride, pad_mode) ==
    [type |-> "AvgPool2d", cin |-> 0, cout |-> 0, kh |-> k, kw |-> k,
     stride |-> stride, pad_mode |-> pad_mode, padding |-> 0]

(***************************************************************************)
(* Shape arithmetic of one spatial axis.                                   *)
(***************************************************************************)
OutDim(n, k, s, pad_mode, p) ==
    CASE pad_mode = "same"  -> (n + s - 1) \div s
      [] pad_mode = "valid" -> ((n - k) \div s) + 1
      [] pad_mode = "pad"   -> ((n + 2 * p - k) \div s) + 1

WindowFits(n, k, pad_mode, p) ==
    CASE pad_mode = "same"  -> n >= 1
      [] pad_mode = "valid" -> n >= k
      [] pad_mode = "pad"   -> n + 2 * p >= k

LayerShape(l, x) ==
    << x[1],
       IF l.type = "BasicConv2d" THEN l.cout ELSE x[2],
       OutDim(x[3], l.kh, l.stride, l.pad_mode, l.padding),
       OutDim(x[4], l.kw, l.stride, l.pad_mode, l.padding) >>

ChanMatch(l, x) == l.type = "BasicConv2d" => x[2] = l.cin

LayerFits(l, x) ==
    /\ WindowFits(x[3], l.kh, l.pad_mode, l.padding)
    /\ WindowFits(x[4], l.kw, l.pad_mode, l.padding)

\* BasicConv2d.construct (conv, bn, relu: bn and relu keep the shape) or a pooling layer
Apply(l, t) ==
    [x |-> LayerShape(l, t.x),
     chan |-> t.chan /\ ChanMatch(l, t.x),
     fits |-> t.fits /\ LayerFits(l, t.x),
     pos |-> t.pos /\ LayerShape(l, t.x)[3] >= 1 /\ LayerShape(l, t.x)[4] >= 1,
     agree |-> t.agree]

RECURSIVE SequentialCell(_, _)
SequentialCell(layers, t) ==
    IF layers = << >> THEN t
    ELSE SequentialCell(Tail(layers), Apply(Head(layers), t))

RECURSIVE SumChannels(_)
SumChannels(ts) ==
    IF ts = << >> THEN 0 ELSE Head(ts).x[2] + SumChannels(Tail(ts))

\* ops.concat(ts, axis=1)
Concat(ts) ==
    [x |-> << ts[1].x[1], SumChannels(ts), ts[1].x[3], ts[1].x[4] >>,
     chan |-> \A i \in DOMAIN ts : ts[i].chan,
     fits |-> \A i \in DOMAIN ts : ts[i].fits,
     pos |-> \A i \in DOMAIN ts : ts[i].pos,
     agree |-> /\ \A i \in DOMAIN ts : ts[i].agree
               /\ \A i \in DOMAIN ts :
                    /\ ts[i].x[1] = ts[1].x[1]
                    /\ ts[i].x[3] = ts[1].x[3]
                    /\ ts[i].x[4] = ts[1].x[4]]

Shapes(ts) == [i \in DOMAIN ts |-> ts[i].x]

FlowOK(t) == t.chan /\ t.fits /\ t.pos /\ t.agree

NewFlow(x) == [x |-> x, chan |-> TRUE, fits |-> TRUE, pos |-> TRUE, agree |-> TRUE]

(***************************************************************************)
(* Blocks: the attributes each __init__ assigns, in order.  An attribute   *)
(* is a bare layer (seq = FALSE, one layer) or an nn.SequentialCell.       *)
(***************************************************************************)
Layer(name, l) == [name |-> name, seq |-> FALSE, layers |-> << l >>]
Seq_(name, ls) == [name |-> name, seq |-> TRUE, layers |-> ls]

Stem_conv2d_2b_3x3_nopad == BasicConv2d(32, 64, 3, 3, 1, "valid", 0)

Stem_conv2d_2b_3x3 == BasicConv2d(32, 64, 3, 3, 1, "pad", 1)

Stem(in_channels) ==
    [kind |-> "Stem", attrs |-> <<
        Layer("conv2d_1a_3x3", BasicConv2d(in_channels, 32, 3, 3, 2, "valid", 0)),
        Layer("conv2d_2a_3x3", BasicConv2d(32, 32, 3, 3, 1, "valid", 0)),
        Layer("conv2d_2b_3x3", Stem_conv2d_2b_3x3),
        Layer("mixed_3a_branch_0", MaxPool2d(3, 2)),
        Layer("mixed_3a_branch_1", BasicConv2d(64, 96, 3, 3, 2, "valid", 0)),
        Seq_("mixed_4a_branch_0", <<
            ConvSame(160, 64, 1, 1),
            BasicConv2d(64, 96, 3, 3, 1, "valid", 0) >>),
        Seq_("mixed_4a_branch_1", <<
            ConvSame(160, 64, 1, 1),
            ConvSame(64, 64, 1, 7),
            ConvSame(64, 64, 7, 1),
            BasicConv2d(64, 96, 3, 3, 1, "valid", 0) >>),
        Layer("mixed_5a_branch_0", BasicConv2d(192, 192, 3, 3, 2, "valid", 0)),
        Layer("mixed_5a_branch_1", MaxPool2d(3, 2)) >>]

InceptionA ==
    [kind |-> "InceptionA", attrs |-> <<
        Layer("branch_0", ConvSame(384, 96, 1, 1)),
        Seq_("branch_1", <<
            ConvSame(384, 64, 1, 1),
            BasicConv2d(64, 96, 3, 3, 1, "pad", 1) >>),
        Seq_("branch_2", <<
            ConvSame(384, 64, 1, 1),
            BasicConv2d(64, 96, 3, 3, 1, "pad", 1),
            BasicConv2d(96, 96, 3, 3, 1, "pad", 1) >>),
        Seq_("branch_3", <<
            AvgPool2d(3, 1, "same"),
            ConvSame(384, 96, 1, 1) >>) >>]

InceptionB_branch_3_wide == << AvgPool2d(3, 1, "same"), ConvSame(1024, 256, 1, 1) >>

InceptionB_branch_3 == << AvgPool2d(3, 1, "same"), ConvSame(1024, 128, 1, 1) >>

InceptionB ==
    [kind |-> "InceptionB", attrs |-> <<
        Layer("branch_0", ConvSame(1024, 384, 1, 1)),
        Seq_("branch_1", <<
            ConvSame(1024, 192, 1, 1),
            ConvSame(192, 224, 1, 7),
            ConvSame(224, 256, 7, 1) >>),
        Seq_("branch_2", <<
            ConvSame(1024, 192, 1, 1),
            ConvSame(192, 192, 7, 1),
            ConvSame(192, 224, 1, 7),
            ConvSame(224, 224, 7, 1),
            ConvSame(224, 256, 1, 7) >>),
        Seq_("branch_3", InceptionB_branch_3) >>]

ReductionA ==
    [kind |-> "ReductionA", attrs |-> <<
        Layer("branch_0", BasicConv2d(384, 384, 3, 3, 2, "valid", 0)),
        Seq_("branch_1", <<
            ConvSame(384, 192, 1, 1),
            BasicConv2d(192, 224, 3, 3, 1, "pad", 1),
            BasicConv2d(224, 256, 3, 3, 2, "valid", 0) >>),
        Layer("branch_2", MaxPool2d(3, 2)) >>]

ReductionB_branch_0_wide ==
    << ConvSame(1024, 192, 1, 1), BasicConv2d(192, 256, 3, 3, 2, "valid", 0) >>

ReductionB_branch_0 ==
    << ConvSame(1024, 192, 1, 1), BasicConv2d(192, 192, 3, 3, 2, "valid", 0) >>

ReductionB ==
    [kind |-> "ReductionB", attrs |-> <<
        Seq_("branch_0", ReductionB_branch_0),
        Seq_("branch_1", <<
            ConvSame(1024, 256, 1, 1),
            ConvSame(256, 256, 1, 7),
            ConvSame(256, 320, 7, 1),
            BasicConv2d(320, 320, 3, 3, 2, "valid", 0) >>),
        Layer("branch_2", MaxPool2d(3, 2)) >>]

InceptionC_branch_2_1_from448 == ConvSame(448, 256, 1, 3)

InceptionC_branch_2_1 == ConvSame(512, 256, 1, 3)

InceptionC ==
    [kind |-> "InceptionC", attrs |-> <<
        Layer("branch_0", ConvSame(1536, 256, 1, 1)),
        Layer("branch_1", ConvSame(1536, 384, 1, 1)),
        Layer("branch_1_1", ConvSame(384, 256, 1, 3)),
        Layer("branch_1_2", ConvSame(384, 256, 3, 1)),
        Seq_("branch_2", <<
            ConvSame(1536, 384, 1, 1),
            ConvSame(384, 448, 3, 1),
            ConvSame(448, 512, 1, 3) >>),
        Layer("branch_2_1", InceptionC_branch_2_1),
        Layer("branch_2_2", ConvSame(512, 256, 3, 1)),
        Seq_("branch_3", <<
            AvgPool2d(3, 1, "same"),
            ConvSame(1536, 256, 1, 1) >>) >>]

(***************************************************************************)
(* The construct methods.  Each returns                                    *)
(*   out  - the flow leaving the block                                     *)
(*   mid  - the shape of x after each assignment to x / the return value   *)
(*   cats - for each ops.concat of the method, the shapes it was given     *)
(***************************************************************************)
Run(b, i, t) == SequentialCell(b.attrs[i].layers, t)

StemConstruct(b, t) ==
    LET x1 == Run(b, 1, t)
        x2 == Run(b, 2, x1)
        x3 == Run(b, 3, x2)
        c3 == << Run(b, 4, x3), Run(b, 5, x3) >>
        x4 == Concat(c3)
        c4 == << Run(b, 6, x4), Run(b, 7, x4) >>
        x5 == Concat(c4)
        c5 == << Run(b, 8, x5), Run(b, 9, x5) >>
        x6 == Concat(c5)
    IN  [out |-> x6,
         mid |-> << x1.x, x2.x, x3.x, x4.x, x5.x, x6.x >>,
         cats |-> << Shapes(c3), Shapes(c4), Shapes(c5) >>]

\* InceptionA.construct and InceptionB.construct: four branches, one concat
FourBranchConstruct(b, t) ==
    LET c == << Run(b, 1, t), Run(b, 2, t), Run(b, 3, t), Run(b, 4, t) >>
        x4 == Concat(c)
    IN  [out |-> x4, mid |-> << x4.x >>, cats |-> << Shapes(c) >>]

\* ReductionA.construct and ReductionB.construct: three branches, one concat
ReductionConstruct(b, t) ==
    LET c == << Run(b, 1, t), Run(b, 2, t), Run(b, 3, t) >>
        x3 == Concat(c)
    IN  [out |-> x3, mid |-> << x3.x >>, cats |-> << Shapes(c) >>]

InceptionCConstruct(b, t) ==
    LET x0 == Run(b, 1, t)
        x1a == Run(b, 2, t)
        c1 == << Run(b, 3, x1a), Run(b, 4, x1a) >>
        x1 == Concat(c1)
        x2a == Run(b, 5, t)
        c2 == << Run(b, 6, x2a), Run(b, 7, x2a) >>
        x2 == Concat(c2)
        x3 == Run(b, 8, t)
        c == << x0, x1, x2, x3 >>
        r == Concat(c)
    IN  [out |-> r, mid |-> << r.x >>,
         cats |-> << Shapes(c1), Shapes(c2), Shapes(c) >>]

\* dispatch of cell(x) on the block's class
BlockConstruct(b, t) ==
    CASE b.kind = "Stem" -> StemConstruct(b, t)
      [] b.kind \in {"InceptionA", "InceptionB"} -> FourBranchConstruct(b, t)
      [] b.kind \in {"ReductionA", "ReductionB"} -> ReductionConstruct(b, t)
      [] b.kind = "InceptionC" -> InceptionCConstruct(b, t)

(***************************************************************************)
(* The head: GlobalAvgPooling, nn.Dropout, nn.Dense.                       *)
(***************************************************************************)
Dense(in_channels, out_channels) ==
    [type |-> "Dense", in_channels |-> in_channels, out_channels |-> out_channels]

Classifier_swapped(num_classes) == Dense(num_classes, NumFeatures)

Classifier_fixed(num_classes) == Dense(NumFeatures, DefaultNumClasses)

\* self.num_features = 1536; self.classifier = nn.Dense(self.num_features, num_classes)
Classifier(num_classes) == Dense(NumFeatures, num_classes)

NoDense == [type |-> "none", in_channels |-> 0, out_channels |-> 0]

\* mean over the two spatial axes: <<N, C, H, W>> -> <<N, C>>
GlobalAvgPooling(t) ==
    [t EXCEPT !.x = << t.x[1], t.x[2] >>]

\* nn.Dropout keeps the shape (the keep probability does not enter the shape)
Dropout(t) == t

\* nn.Dense applied to a rank-2 input: the last axis must be in_channels wide
DenseApply(d, t) ==
    [t EXCEPT !.x = << t.x[1], d.out_channels >>,
              !.chan = t.chan /\ t.x[Len(t.x)] = d.in_channels]

(***************************************************************************)
(* cells_and_names(): the model's cells in pre-order.  A cell is recorded  *)
(* with the initializer and shape of its `weight` parameter (if it has     *)
(* one) and the initializer of its other parameters (if it has any).       *)
(***************************************************************************)
NoWeight == << "none", << >> >>
DefaultWeight(shape) == << "default", shape >>
XavierUniform(shape) == << "XavierUniform", shape >>

Cell(type, weight, rest) == [type |-> type, weight |-> weight, rest |-> rest]

\* a BasicConv2d and its children conv (no bias), bn, relu; or a pooling layer
LayerCells(l) ==
    IF l.type = "BasicConv2d"
    THEN << Cell("BasicConv2d", NoWeight, "none"),
            Cell("Conv2d", DefaultWeight(<< l.cout, l.cin, l.kh, l.kw >>), "none"),
            Cell("BatchNorm2d", NoWeight, "default"),
            Cell("ReLU", NoWeight, "none") >>
    ELSE << Cell(l.type, NoWeight, "none") >>

RECURSIVE LayersCells(_)
LayersCells(ls) ==
    IF ls = << >> THEN << >> ELSE LayerCells(Head(ls)) \o LayersCells(Tail(ls))

AttrCells(a) ==
    IF a.seq
    THEN << Cell("SequentialCell", NoWeight, "none") >> \o LayersCells(a.layers)
    ELSE LayersCells(a.layers)

RECURSIVE AttrsCells(_)
AttrsCells(as) ==
    IF as = << >> THEN << >> ELSE AttrCells(Head(as)) \o AttrsCells(Tail(as))

BlockCells(b) == << Cell(b.kind, NoWeight, "none") >> \o AttrsCells(b.attrs)

RECURSIVE BlocksCells(_)
BlocksCells(bs) ==
    IF bs = << >> THEN << >> ELSE BlockCells(Head(bs)) \o BlocksCells(Tail(bs))

DenseCell(d) ==
    Cell("Dense", DefaultWeight(<< d.out_channels, d.in_channels >>), "default")

CellsAndNames(bs, d) ==
    << Cell("InceptionV4", NoWeight, "none"),
       Cell("SequentialCell", NoWeight, "none") >>
    \o BlocksCells(bs)
    \o << Cell("GlobalAvgPooling", NoWeight, "none"),
          Cell("Dropout", NoWeight, "none"),
          DenseCell(d) >>

IsInitTarget_withDense(cell) == cell.type \in {"Conv2d", "Dense"}

\* the test of _initialize_weights: isinstance(cell, nn.Conv2d)
IsInitTarget(cell) == cell.type = "Conv2d"

\* one iteration of the loop of _initialize_weights
InitializeCell(cell) ==
    IF IsInitTarget(cell)
    THEN [cell EXCEPT !.weight = XavierUniform(cell.weight[2])]
    ELSE cell

(***************************************************************************)
(* The model as a value, and construct as a function of it: what           *)
(* __init__ builds from (in_channels, num_classes), and the sequence of    *)
(* shapes construct goes through on an input of shape x.  Like the         *)
(* runtime, the pass stops at the first failed check.                      *)
(***************************************************************************)
Repeat(b, n) == [j \in 1 .. n |-> b]

FeatureBlocks(in_channels) ==
    << Stem(in_channels) >> \o Repeat(InceptionA, NumInceptionA)
    \o << ReductionA >> \o Repeat(InceptionB, NumInceptionB)
    \o << ReductionB >> \o Repeat(InceptionC, NumInceptionC)

Model(in_channels, num_classes) ==
    [blocks |-> FeatureBlocks(in_channels), classifier |-> Classifier(num_classes)]

Entry(step, x) == [step |-> step, x |-> x]

Tracked(t, tr, step) == [flow |-> t, trace |-> Append(tr, Entry(step, t.x))]

RECURSIVE ForwardFeatures(_, _)
ForwardFeatures(bs, s) ==
    IF bs = << >> \/ ~FlowOK(s.flow) THEN s
    ELSE ForwardFeatures(Tail(bs),
            Tracked(BlockConstruct(Head(bs), s.flow).out, s.trace, Head(bs).kind))

ForwardHead(d, s) ==
    LET pooled == Tracked(GlobalAvgPooling(s.flow), s.trace, "pool")
        dropped == Tracked(Dropout(pooled.flow), pooled.trace, "dropout")
        classified == Tracked(DenseApply(d, dropped.flow), dropped.trace, "classifier")
    IN  IF ~FlowOK(s.flow) THEN s
        ELSE IF ~FlowOK(pooled.flow) THEN pooled
        ELSE IF ~FlowOK(dropped.flow) THEN dropped
        ELSE classified

ConstructTrace(m, x) ==
    ForwardHead(m.classifier,
        ForwardFeatures(m.blocks,
            [flow |-> NewFlow(x), trace |-> << Entry("input", x) >>])).trace

(***************************************************************************)
(* State.                                                                  *)
(***************************************************************************)
VARIABLES
    in_channels,    \* constructor argument
    num_classes,    \* constructor argument
    pc,             \* position in __init__ / _initialize_weights / construct
    i,              \* the counter of the current `for _ in range(..)` loop
    blocks,         \* the list `blocks`, later self.features
    classifier,     \* self.classifier
    cells,          \* the cells of the model with their parameters' initializers
    ci,             \* position of _initialize_weights in cells_and_names()
    flow,           \* the tensor x of construct
    k,              \* number of blocks applied to x so far
    mid,            \* shapes of x inside the block applied last
    cats,           \* shapes given to each ops.concat of the block applied last
    trace           \* the input and the shape after every block / head step

vars == << in_channels, num_classes, pc, i, blocks, classifier, cells, ci,
           flow, k, mid, cats, trace >>

NoFlow == NewFlow(<< >>)

ClassChoices == (1 .. MaxClasses) \cup {DefaultNumClasses}

NotStarted ==
    /\ pc = "new"
    /\ i = 0
    /\ blocks = << >>
    /\ classifier = NoDense
    /\ cells = << >>
    /\ ci = 0
    /\ flow = NoFlow
    /\ k = 0
    /\ mid = << >>
    /\ cats = << >>
    /\ trace = << >>

Init ==
    /\ in_channels \in 1 .. MaxInChannels
    /\ num_classes \in ClassChoices
    /\ NotStarted

(***************************************************************************)
(* InceptionV4.__init__                                                    *)
(***************************************************************************)
ctorFrame == UNCHANGED << in_channels, num_classes, flow, k, mid, cats, trace >>

AppendStem ==
    /\ pc = "new"
    /\ blocks' = Append(blocks, Stem(in_channels))
    /\ pc' = "loopA"
    /\ i' = 0
    /\ UNCHANGED << classifier, cells, ci >>
    /\ ctorFrame

AppendInceptionA ==
    /\ pc = "loopA"
    /\ i < NumInceptionA
    /\ blocks' = Append(blocks, InceptionA)
    /\ i' = i + 1
    /\ UNCHANGED << pc, classifier, cells, ci >>
    /\ ctorFrame

AppendReductionA ==
    /\ pc = "loopA"
    /\ i >= NumInceptionA
    /\ blocks' = Append(blocks, ReductionA)
    /\ pc' = "loopB"
    /\ i' = 0
    /\ UNCHANGED << classifier, cells, ci >>
    /\ ctorFrame

AppendInceptionB_offByOne ==
    /\ pc = "loopB"
    /\ i <= NumInceptionB
    /\ blocks' = Append(blocks, InceptionB)
    /\ i' = i + 1
    /\ UNCHANGED << pc, classifier, cells, ci >>
    /\ ctorFrame

AppendInceptionB ==
    /\ pc = "loopB"
    /\ i < NumInceptionB
    /\ blocks' = Append(blocks, InceptionB)
    /\ i' = i + 1
    /\ UNCHANGED << pc, classifier, cells, ci >>
    /\ ctorFrame

AppendReductionB ==
    /\ pc = "loopB"
    /\ i >= NumInceptionB
    /\ blocks' = Append(blocks, ReductionB)
    /\ pc' = "loopC"
    /\ i' = 0
    /\ UNCHANGED << classifier, cells, ci >>
    /\ ctorFrame

AppendInceptionC ==
    /\ pc = "loopC"
    /\ i < NumInceptionC
    /\ blocks' = Append(blocks, InceptionC)
    /\ i' = i + 1
    /\ UNCHANGED << pc, classifier, cells, ci >>
    /\ ctorFrame

\* self.features, pool, dropout, num_features, classifier; then the call of
\* _initialize_weights, which starts its walk over cells_and_names()
BuildHead ==
    /\ pc = "loopC"
    /\ i >= NumInceptionC
    /\ classifier' = Classifier(num_classes)
    /\ cells' = CellsAndNames(blocks, classifier')
    /\ ci' = 1
    /\ pc' = "init_weights"
    /\ UNCHANGED << i, blocks >>
    /\ ctorFrame

InitializeWeightsStep ==
    /\ pc = "init_weights"
    /\ ci <= Len(cells)
    /\ cells' = [cells EXCEPT ![ci] = InitializeCell(cells[ci])]
    /\ ci' = ci + 1
    /\ UNCHANGED << pc, i, blocks, classifier >>
    /\ ctorFrame

InitializeWeightsReturn ==
    /\ pc = "init_weights"
    /\ ci > Len(cells)
    /\ pc' = "ready"
    /\ UNCHANGED << i, blocks, classifier, cells, ci >>
    /\ ctorFrame

(***************************************************************************)
(* InceptionV4.construct                                                   *)
(***************************************************************************)
modelFrame == UNCHANGED << in_channels, num_classes, i, blocks, classifier, cells, ci >>

After(t, next) == IF FlowOK(t) THEN next ELSE "error"

\* construct is called with a tensor of shape <<n, c, h, w>>
Construct(Batches, Channels, Sides) ==
    /\ pc = "ready"
    /\ \E n \in Batches, c \in Channels, h \in Sides, w \in Sides :
          /\ flow' = NewFlow(<< n, c, h, w >>)
          /\ trace' = << Entry("input", << n, c, h, w >>) >>
    /\ pc' = "features"
    /\ k' = 0
    /\ UNCHANGED << mid, cats >>
    /\ modelFrame

\* forward_features: self.features applies the next block of the list
FeaturesStep ==
    /\ pc = "features"
    /\ k < Len(blocks)
    /\ \E r \in {BlockConstruct(blocks[k + 1], flow)} :
           /\ flow' = r.out
           /\ mid' = r.mid
           /\ cats' = r.cats
           /\ trace' = Append(trace, Entry(blocks[k + 1].kind, r.out.x))
           /\ pc' = After(r.out, "features")
    /\ k' = k + 1
    /\ modelFrame

\* forward_head: x = self.pool(x)
Pool ==
    /\ pc = "features"
    /\ k >= Len(blocks)
    /\ flow' = GlobalAvgPooling(flow)
    /\ trace' = Append(trace, Entry("pool", flow'.x))
    /\ pc' = After(flow', "dropout")
    /\ UNCHANGED << k, mid, cats >>
    /\ modelFrame

\* forward_head: x = self.dropout(x)
DropoutStep ==
    /\ pc = "dropout"
    /\ flow' = Dropout(flow)
    /\ trace' = Append(trace, Entry("dropout", flow'.x))
    /\ pc' = After(flow', "classifier")
    /\ UNCHANGED << k, mid, cats >>
    /\ modelFrame

\* forward_head: x = self.classifier(x); construct returns x
ClassifierStep ==
    /\ pc = "classifier"
    /\ flow' = DenseApply(classifier, flow)
    /\ trace' = Append(trace, Entry("classifier", flow'.x))
    /\ pc' = After(flow', "done")
    /\ UNCHANGED << k, mid, cats >>
    /\ modelFrame

Build ==
    \/ AppendStem
    \/ AppendInceptionA
    \/ AppendReductionA
    \/ AppendInceptionB
    \/ AppendReductionB
    \/ AppendInceptionC
    \/ BuildHead
    \/ InitializeWeightsStep
    \/ InitializeWeightsReturn

Forward ==
    \/ FeaturesStep
    \/ Pool
    \/ DropoutStep
    \/ ClassifierStep

(***************************************************************************)
(* Spec: a model is built with any in_channels and num_classes and then    *)
(* called once on an input of any batch size and channel count whose       *)
(* sides are 299 or MaxSide.                                               *)
(***************************************************************************)
CallSides == {MaxSide, 299}

Next ==
    \/ Build
    \/ Construct(1 .. MaxBatch, 1 .. MaxInChannels, CallSides)
    \/ Forward

Spec == Init /\ [][Next]_vars

(***************************************************************************)
(* SpecSize: the default model (in_channels = 3, num_classes = 1000) is    *)
(* built and then called once on a 3-channel input of any height and       *)
(* width in 1..MaxSide or 299.                                             *)
(***************************************************************************)
Sides == (1 .. MaxSide) \cup {299}

InitDefault ==
    /\ in_channels = DefaultInChannels
    /\ num_classes = DefaultNumClasses
    /\ NotStarted

NextSize ==
    \/ Build
    \/ Construct({1}, {DefaultInChannels}, Sides)
    \/ Forward

SpecSize == InitDefault /\ [][NextSize]_vars

(***************************************************************************)
(* SpecBlock: single blocks are instantiated and applied, up to MaxReps    *)
(* in a row, to a tensor of any height and width in 1..MaxBlockSide.  The  *)
(* tensors drawn have the channel count the applied block declares: a      *)
(* Stem(in_channels) is given in_channels channels, the other blocks 384,  *)
(* 1024 or 1536.                                                           *)
(***************************************************************************)
BlockSides == 1 .. MaxBlockSide

StageChannels == {384, 1024, 1536}

\* the declared in_channels of the first layers of a block
Expects(b) == b.attrs[1].layers[1].cin

InitBlock ==
    /\ in_channels \in 1 .. MaxInChannels
    /\ num_classes = DefaultNumClasses
    /\ pc = "block"
    /\ i = 0
    /\ blocks = << >>
    /\ classifier = NoDense
    /\ cells = << >>
    /\ ci = 0
    /\ k = 0
    /\ mid = << >>
    /\ cats = << >>
    /\ \E c \in {in_channels} \cup StageChannels, h \in BlockSides, w \in BlockSides :
          /\ c \in StageChannels => in_channels = DefaultInChannels
          /\ flow = NewFlow(<< 1, c, h, w >>)
          /\ trace = << Entry("input", << 1, c, h, w >>) >>

\* x = b(x) for a block b
ApplyBlock(b) ==
    /\ pc = "block"
    /\ k < MaxReps
    /\ flow.x[2] = Expects(b)
    /\ \E r \in {BlockConstruct(b, flow)} :
           /\ flow' = r.out
           /\ mid' = r.mid
           /\ cats' = r.cats
           /\ trace' = Append(trace, Entry(b.kind, r.out.x))
           /\ pc' = After(r.out, "block")
    /\ k' = k + 1
    /\ modelFrame

ApplyStem == ApplyBlock(Stem(in_channels))
ApplyInceptionA == ApplyBlock(InceptionA)
ApplyReductionA == ApplyBlock(ReductionA)
ApplyInceptionB == ApplyBlock(InceptionB)
ApplyReductionB == ApplyBlock(ReductionB)
ApplyInceptionC == ApplyBlock(InceptionC)

NextBlock ==
    \/ ApplyStem
    \/ ApplyInceptionA
    \/ ApplyReductionA
    \/ ApplyInceptionB
    \/ ApplyReductionB
    \/ ApplyInceptionC

SpecBlock == InitBlock /\ [][NextBlock]_vars

(***************************************************************************)
(* Helpers of the properties.                                              *)
(***************************************************************************)
Called == trace # << >>

Input == trace[1].x

LastStep == trace[Len(trace)].step

(***************************************************************************)
(* C1: end-to-end shape.  For every configured num_classes >= 1, a model   *)
(* built with in_channels = 3 and called on an input of shape              *)
(* (1, 3, 299, 299) never fails, runs through the features, the pooling,   *)
(* the dropout and the classifier in this order, and returns a tensor of   *)
(* shape (1, num_classes).                                                 *)
(***************************************************************************)
C1_EndToEndShape ==
    (Called /\ in_channels = 3 /\ Input = << 1, 3, 299, 299 >>) =>
        /\ pc # "error"
        /\ FlowOK(flow)
        /\ pc = "done" =>
             /\ flow.x = << 1, num_classes >>
             /\ Len(trace) = Len(blocks) + 4
             /\ trace[Len(blocks) + 2].step = "pool"
             /\ trace[Len(blocks) + 3].step = "dropout"
             /\ trace[Len(blocks) + 4].step = "classifier"
             /\ \A j \in 1 .. Len(blocks) : trace[j + 1].step = blocks[j].kind

C1_Witness ==
    /\ pc = "done"
    /\ in_channels = 3
    /\ num_classes = 2
    /\ Input = << 1, 3, 299, 299 >>
    /\ flow.x = << 1, 2 >>

(***************************************************************************)
(* C2: for every in_channels >= 1, the Stem applied to an input of         *)
(* in_channels channels and 299 x 299 pixels succeeds with the             *)
(* intermediate shapes 32 x 149 x 149, 32 x 147 x 147, 64 x 147 x 147,     *)
(* 160 x 73 x 73, 192 x 71 x 71 and the output 384 x 35 x 35, whatever     *)
(* in_channels is.                                                         *)
(***************************************************************************)
C2_StemShape ==
    (/\ Called
     /\ k = 1
     /\ LastStep = "Stem"
     /\ Input[2] = in_channels
     /\ Input[3] = 299
     /\ Input[4] = 299) =>
        /\ FlowOK(flow)
        /\ pc = "features"
        /\ mid = << << Input[1], 32, 149, 149 >>,
                    << Input[1], 32, 147, 147 >>,
                    << Input[1], 64, 147, 147 >>,
                    << Input[1], 160, 73, 73 >>,
                    << Input[1], 192, 71, 71 >>,
                    << Input[1], 384, 35, 35 >> >>
        /\ flow.x = << Input[1], 384, 35, 35 >>

C2_Witness ==
    /\ k = 1
    /\ in_channels = 2
    /\ Called
    /\ Input = << 1, 2, 299, 299 >>
    /\ LastStep = "Stem"
    /\ flow.x = << 1, 384, 35, 35 >>

(***************************************************************************)
(* C8, as claimed: the list given to the sequential container has exactly  *)
(* 16 elements.                                                            *)
(***************************************************************************)
Built == pc \notin {"new", "loopA", "loopB", "loopC", "block"}

C8_SixteenBlocks == Built => Len(blocks) = 16

(***************************************************************************)
(* C8, amended: the list given to the sequential container has exactly 17  *)
(* elements: Stem, 4 InceptionA, ReductionA, 7 InceptionB, ReductionB and  *)
(* 3 InceptionC, in this order.                                            *)
(***************************************************************************)
C8_SeventeenBlocks ==
    Built =>
        /\ Len(blocks) = 17
        /\ [j \in 1 .. 17 |-> blocks[j].kind] =
             << "Stem",
                "InceptionA", "InceptionA", "InceptionA", "InceptionA",
                "ReductionA",
                "InceptionB", "InceptionB", "InceptionB", "InceptionB",
                "InceptionB", "InceptionB", "InceptionB",
                "ReductionB",
                "InceptionC", "InceptionC", "InceptionC" >>

C8_Witness == pc = "ready" /\ Len(blocks) = 17

(***************************************************************************)
(* C9: _initialize_weights visits every cell of the model, and once it     *)
(* has returned the weight of every Conv2d cell is Xavier-uniform with     *)
(* that cell's own weight shape, while every other cell (BatchNorm2d, the  *)
(* Dense classifier, ...) is as freshly constructed.  While it runs, the   *)
(* cells not yet visited are as freshly constructed.                       *)
(***************************************************************************)
Fresh == CellsAndNames(blocks, classifier)

C9_WeightInitFrame ==
    (pc \in {"init_weights", "ready", "features", "dropout", "classifier", "done", "error"}) =>
        \A fresh \in {Fresh} :
            /\ Len(cells) = Len(fresh)
            /\ pc # "init_weights" => ci = Len(cells) + 1
            /\ \A j \in 1 .. Len(cells) :
                 IF j < ci /\ fresh[j].type = "Conv2d"
                 THEN cells[j] = Cell("Conv2d", << "XavierUniform", fresh[j].weight[2] >>, "none")
                 ELSE cells[j] = fresh[j]

C9_Witness ==
    /\ pc = "ready"
    /\ \E j \in 1 .. Len(cells) :
          /\ cells[j].type = "Conv2d"
          /\ cells[j].weight = XavierUniform(<< 512, 448, 1, 3 >>)
    /\ \E j \in 1 .. Len(cells) :
          /\ cells[j].type = "BatchNorm2d"
          /\ cells[j].rest = "default"
    /\ cells[Len(cells)] = Cell("Dense", DefaultWeight(<< num_classes, 1536 >>), "default")

(***************************************************************************)
(* C3: one application of InceptionA, InceptionB or InceptionC to a        *)
(* tensor of 384, 1024 or 1536 channels respectively, of any height and    *)
(* width >= 1, succeeds and returns a tensor of exactly the same shape;    *)
(* so does every application in a row of applications.                     *)
(***************************************************************************)
Preserves(kind, c) ==
    \A j \in 2 .. Len(trace) :
        (trace[j].step = kind /\ trace[j - 1].x[2] = c) =>
            /\ trace[j].x = trace[j - 1].x
            /\ j = Len(trace) => (FlowOK(flow) /\ pc # "error")

C3_InceptionPreservesShape ==
    /\ Preserves("InceptionA", 384)
    /\ Preserves("InceptionB", 1024)
    /\ Preserves("InceptionC", 1536)

C3_Witness ==
    /\ pc = "block"
    /\ Len(trace) = 4
    /\ Input = << 1, 1024, 5, 9 >>
    /\ \A j \in 2 .. 4 : trace[j].step = "InceptionB"
    /\ flow.x = << 1, 1024, 5, 9 >>

(***************************************************************************)
(* C4: ReductionA maps 384 channels at 35 x 35 to 1024 channels at         *)
(* 17 x 17, concatenating branches of 384, 256 and (max-pool) 384          *)
(* channels; ReductionB maps 1024 channels at 17 x 17 to 1536 channels at  *)
(* 8 x 8, concatenating branches of 192, 320 and (max-pool) 1024 channels. *)
(***************************************************************************)
Reduces(kind, cin, side, branches, outside) ==
    \A j \in 2 .. Len(trace) :
        (trace[j].step = kind /\ trace[j - 1].x = << 1, cin, side, side >>) =>
            /\ trace[j].x = << 1, branches[1] + branches[2] + cin, outside, outside >>
            /\ j = Len(trace) =>
                 /\ FlowOK(flow)
                 /\ pc # "error"
                 /\ cats = << << << 1, branches[1], outside, outside >>,
                                 << 1, branches[2], outside, outside >>,
                                 << 1, cin, outside, outside >> >> >>

C4_ReductionShapes ==
    /\ Reduces("ReductionA", 384, 35, << 384, 256 >>, 17)
    /\ Reduces("ReductionB", 1024, 17, << 192, 320 >>, 8)

C4_Witness ==
    /\ pc = "block"
    /\ Len(trace) = 3
    /\ Input = << 1, 384, 35, 35 >>
    /\ trace[2] = Entry("ReductionA", << 1, 1024, 17, 17 >>)
    /\ trace[3] = Entry("ReductionB", << 1, 1536, 8, 8 >>)

(***************************************************************************)
(* C5: channel-count invariant.  Throughout the forward pass of a model    *)
(* called with as many input channels as it was built for, every           *)
(* convolution receives as many channels as it declares; the tensor        *)
(* leaving the last InceptionC and the pooled vector have num_features =   *)
(* 1536 channels, which is the declared input width of the classifier.     *)
(***************************************************************************)
C5_ChannelInvariant ==
    (Called /\ Input[2] = in_channels) =>
        /\ flow.chan
        /\ (pc = "features" /\ k = Len(blocks)) => flow.x[2] = classifier.in_channels
        /\ pc \in {"dropout", "classifier"} => flow.x[2] = classifier.in_channels
        /\ classifier.in_channels = 1536

C5_Witness ==
    /\ pc = "done"
    /\ in_channels = 1
    /\ Input[2] = 1
    /\ flow.chan
    /\ trace[Len(blocks) + 1] = Entry("InceptionC", << Input[1], 1536, 8, 8 >>)

(***************************************************************************)
(* C6: branch spatial agreement.  Whenever a block has been applied to an  *)
(* input on which every kernel window fitted, each of its concatenations   *)
(* received branch outputs of identical height and width.                  *)
(***************************************************************************)
C6_BranchesAgree ==
    (Called /\ flow.fits /\ flow.chan) =>
        /\ flow.agree
        /\ \A c \in 1 .. Len(cats) :
             \A j \in 1 .. Len(cats[c]) :
                /\ cats[c][j][3] = cats[c][1][3]
                /\ cats[c][j][4] = cats[c][1][4]

C6_Witness ==
    /\ pc = "block"
    /\ LastStep = "Stem"
    /\ Input[3] = 36
    /\ Input[4] = 31
    /\ flow.fits
    /\ Len(cats) = 3
    /\ cats[1] = << << 1, 64, 7, 6 >>, << 1, 96, 7, 6 >> >>
    /\ cats[3] = << << 1, 192, 2, 1 >>, << 1, 192, 2, 1 >> >>

(***************************************************************************)
(* C7: changing num_classes changes only the classifier's output width.    *)
(* The blocks of the model, the classifier's input width and every shape   *)
(* of the forward pass up to and including the pooled (and dropped-out)    *)
(* vector are those of the model built with the same in_channels and any   *)
(* other num_classes, called on the same input; the classifier's output    *)
(* width is num_classes.                                                   *)
(***************************************************************************)
SameButClassifier(tr, other, nc, nc2) ==
    /\ Len(tr) = Len(other)
    /\ \A j \in 1 .. Len(tr) :
         IF tr[j].step = "classifier"
         THEN /\ other[j].step = "classifier"
              /\ tr[j].x = << Input[1], nc >>
              /\ other[j].x = << Input[1], nc2 >>
         ELSE tr[j] = other[j]

C7_OnlyClassifierWidth ==
    /\ Built =>
         \A nc2 \in ClassChoices :
            \A m2 \in {Model(in_channels, nc2)} :
               /\ blocks = m2.blocks
               /\ classifier.in_channels = m2.classifier.in_channels
               /\ classifier.out_channels = num_classes
               /\ m2.classifier.out_channels = nc2
    /\ pc \in {"done", "error"} =>
         \A nc2 \in ClassChoices :
            SameButClassifier(trace, ConstructTrace(Model(in_channels, nc2), Input),
                              num_classes, nc2)

C7_Witness ==
    /\ pc = "done"
    /\ num_classes = 3
    /\ trace[Len(trace)] = Entry("classifier", << 2, 3 >>)
    /\ trace[Len(trace) - 1] = Entry("dropout", << 2, 1536 >>)
    /\ ConstructTrace(Model(in_channels, 1), Input)[Len(trace)] = Entry("classifier", << 2, 1 >>)

(***************************************************************************)
(* C10: minimum input size.  The forward pass of the default model goes    *)
(* through (every window fits and every intermediate height and width is   *)
(* >= 1) if and only if the input height and width are both >= 75.  On a   *)
(* 75 x 75 input the tensor leaving ReductionB is 1 x 1.  If a side is     *)
(* <= 74, the pass fails in the Stem, in ReductionA or in ReductionB, on   *)
(* a window that does not fit.                                             *)
(***************************************************************************)
Finished == pc \in {"done", "error"}

C10_MinimumInputSize ==
    Called =>
        /\ flow.fits <=> flow.pos
        /\ (Input[3] >= 75 /\ Input[4] >= 75) =>
              /\ flow.fits
              /\ pc # "error"
        /\ (Input[3] <= 74 \/ Input[4] <= 74) =>
              /\ pc \notin {"dropout", "classifier", "done"}
              /\ ~(pc = "features" /\ k = Len(blocks))
              /\ Finished => (pc = "error" /\ ~flow.fits)
        /\ pc = "error" => LastStep \in {"Stem", "ReductionA", "ReductionB"}
        /\ (Input[3] = 75 /\ Input[4] = 75 /\ LastStep = "ReductionB") =>
              flow.x = << 1, 1536, 1, 1 >>

C10_Witness ==
    /\ pc = "done"
    /\ Input = << 1, 3, 75, 75 >>
    /\ trace[15] = Entry("ReductionB", << 1, 1536, 1, 1 >>)

====
